---- MODULE Spec2Model ----
(***************************************************************************)
(* ScanChain: supply-chain provenance tracker (Flask app over JSON files). *)
(* The model covers the register (POST /api/upload), verify                *)
(* (POST /api/verify) and scan (POST /api/scan) handlers of src/app.py and *)
(* the services they call: BlockchainService (mock ledger),                *)
(* GreenfieldService (mock blob store, local uploads/ directory),          *)
(* DatabaseService (batches.json, products.json, scans.json) and           *)
(* AuthService (users.json).                                               *)
(*                                                                         *)
(* Spec      : every handler runs to completion before the next starts;    *)
(*             the requests arrive within one second of the clock.         *)
(* SpecDashboard : scans and dashboard reads, one at a time, while the     *)
(*             clock advances; it starts with two registered batches.      *)
(* SpecOrphan : SpecDashboard started with an orphaned scan in scans.json. *)
(* SpecStore : DatabaseService calls made directly, one at a time, while   *)
(*             the clock advances.                                         *)
(* SpecConc  : DatabaseService.record_scan, store_batch and                *)
(*             get_user_dashboard calls of several request threads         *)
(*             interleave at the granularity of one file read or one file  *)
(*             write.                                                      *)
(* SpecSearch : uploads and search_products calls, one at a time.          *)
(* SpecMetadata : scans and GET /api/user/<id>/metadata requests, one at a *)
(*             time, from the start of SpecDashboard.                      *)
(* SpecAuth  : AuthService.associate_blockchain_hash, register_user and    *)
(*             login_user calls of several request threads interleave at   *)
(*             the granularity of one access to users.json.                *)
(***************************************************************************)
EXTENDS Naturals, Sequences, FiniteSets, TLC

VARIABLES
    now,            \* datetime.utcnow(), in whole seconds
    uploads,        \* uploads/<filename>: the mock blob store's local files
    batches_data,   \* data/batches.json  {"batches": [...], "lastBatchId": n}
    products_data,  \* data/products.json {"products": [...], "lastProductId": n}
    scans_data,     \* data/scans.json    {"scans": [...], "lastScanId": n}
    users_data,     \* data/users.json    {"users": [...], "lastUserId": n}
    anchored,       \* history: ledger entries store_product_hash acknowledged
    registered,     \* history: <<batchId, artifact>> pairs /api/upload answered 200 for
    last,           \* the most recent request and the response it got
    pc,             \* SpecConc: position of each request thread inside record_scan
    loc             \* SpecConc: local variables of each request thread

vars == <<now, uploads, batches_data, products_data, scans_data, users_data,
          anchored, registered, last, pc, loc>>

(***************************************************************************)
(* Bounds of the model.                                                    *)
(***************************************************************************)
MaxBatches == 2
MaxScans == 2
NumThreads == 2
MaxClock == 2

(***************************************************************************)
(* Inputs.                                                                 *)
(***************************************************************************)
None == "None"

ProductIds == {"LOT-001", "LOT-002"}
FileContents == {"hello", "hello!"}
SupplierNames == {"Global Logistics Supplier", "Acme Freight"}
\* the 'sub' of a bearer token is str(user id); user 1 registers batches,
\* user 2 scans them, "9" resolves to no user
UploaderSubjects == {"1"}

(***************************************************************************)
(* hashlib.sha256(data).hexdigest(): a digest that is a function of the    *)
(* bytes and differs for different bytes (collision-free abstraction).     *)
(***************************************************************************)
Sha256Hex(data) == "sha256(" \o data \o ")"

(***************************************************************************)
(* BlockchainService (mock ledger).                                        *)
(***************************************************************************)
\* store_product_hash: the transaction hash it returns; it stores nothing
StoreProductHash(product_id, file_hash) ==
    "0x" \o Sha256Hex(product_id \o file_hash)

\* get_product_hash: a digest derived from the product id alone
GetProductHash(product_id) == Sha256Hex("mock_file_content_" \o product_id)

(***************************************************************************)
(* GreenfieldService (mode = 'mock').                                      *)
(***************************************************************************)
BucketName == "bnbhack1"
MockFileContent == "mock_file_content_for_hash_verification"

\* upload_file (app.py): "<productId>-<int(timestamp)>.<extension>"
ObjectName(product_id, ts, ext) ==
    product_id \o "-" \o ToString(ts) \o "." \o ext

\* _upload_mock: the URL handed back, f"gnfd://{bucket}/{filename}"
GreenfieldUrl(filename) ==
    [scheme |-> "gnfd", bucket |-> BucketName, filename |-> filename]

\* a URL that does not start with gnfd://
ForeignUrl == [scheme |-> "https", bucket |-> "example.org", filename |-> "cert.pdf"]
\* a gnfd:// URL of an object that was never uploaded
AbsentUrl == GreenfieldUrl("LOT-404-0.pdf")

\* _upload_mock: writes uploads/<filename>
UploadMock(files, filename, file_data) ==
    [f \in DOMAIN files \cup {filename} |->
        IF f = filename THEN file_data ELSE files[f]]

\* _download_mock: the local copy, or placeholder bytes when it is absent
DownloadMock(files, filename) ==
    IF filename \in DOMAIN files THEN files[filename] ELSE MockFileContent

\* download_file: gnfd:// URLs are read from the local store, by their last
\* path segment; any other URL yields the placeholder bytes
DownloadFile(files, file_url) ==
    IF file_url.scheme = "gnfd"
    THEN DownloadMock(files, file_url.filename)
    ELSE MockFileContent

(***************************************************************************)
(* AuthService (users.json).                                               *)
(***************************************************************************)
\* register_user: the new user; lastLogin is <<>> for None, <<ts>> once set
NewUser(id, email, full_name, role) ==
    [id |-> id, email |-> email, fullName |-> full_name, role |-> role,
     lastLogin |-> <<>>,
     blockchainHashes |-> <<>>, profileData |-> [totalBatches |-> 0]]

\* get_user_by_id: index of the first user with that id, 0 for None
UserIndex(ud, user_id) ==
    IF \E i \in 1..Len(ud.users) : ud.users[i].id = user_id
    THEN CHOOSE i \in 1..Len(ud.users) :
            /\ ud.users[i].id = user_id
            /\ \A j \in 1..(i - 1) : ud.users[j].id # user_id
    ELSE 0

\* int(decoded_token['sub'])
SubjectId(sub) ==
    CASE sub = "1" -> 1 [] sub = "2" -> 2 [] sub = "3" -> 3 [] OTHER -> 9

\* an association is appended unless the user already holds one for the batchId
AssociateOncePerBatchId(ud, user_id, hash_data, ts) ==
    LET i == UserIndex(ud, user_id) IN
    IF i = 0 THEN ud
    ELSE IF \E k \in DOMAIN ud.users[i].blockchainHashes :
                ud.users[i].blockchainHashes[k].batchId = hash_data.batchId
    THEN ud
    ELSE [ud EXCEPT
            !.users[i].blockchainHashes =
                Append(@, [batchId |-> hash_data.batchId,
                           fileHash |-> hash_data.fileHash,
                           txHash |-> hash_data.txHash,
                           timestamp |-> ts]),
            !.users[i].profileData.totalBatches = @ + 1]

\* associate_blockchain_hash
AssociateBlockchainHash(ud, user_id, hash_data, ts) ==
    LET i == UserIndex(ud, user_id) IN
    IF i = 0 THEN ud
    ELSE [ud EXCEPT
            !.users[i].blockchainHashes =
                Append(@, [batchId |-> hash_data.batchId,
                           fileHash |-> hash_data.fileHash,
                           txHash |-> hash_data.txHash,
                           timestamp |-> ts]),
            !.users[i].profileData.totalBatches = @ + 1]

(***************************************************************************)
(* DatabaseService (batches.json, products.json, scans.json).              *)
(***************************************************************************)
\* get_batch: index of the first batch row with that batchId, 0 for None
GetBatchIndex(bd, batch_id) ==
    IF \E i \in 1..Len(bd.batches) : bd.batches[i].batchId = batch_id
    THEN CHOOSE i \in 1..Len(bd.batches) :
            /\ bd.batches[i].batchId = batch_id
            /\ \A j \in 1..(i - 1) : bd.batches[j].batchId # batch_id
    ELSE 0

\* a check that is satisfied as soon as the store holds any batch
HasAnyBatch(bd, batch_id) == Len(bd.batches) > 0

HasBatch(bd, batch_id) == GetBatchIndex(bd, batch_id) # 0

GetBatch(bd, batch_id) == bd.batches[GetBatchIndex(bd, batch_id)]

\* store_batch: the batch row built from the upload's data
NewBatch(batch_id, data, ts) ==
    [batchId |-> batch_id,
     manufacturerName |-> data.manufacturerName,
     batchName |-> data.batchName,
     productType |-> data.productType,
     fileHash |-> data.fileHash,
     greenfieldUrl |-> data.greenfieldUrl,
     txHash |-> data.txHash,
     userId |-> data.userId,
     createdAt |-> ts,
     scans |-> <<>>,
     status |-> "active",
     lastActivity |-> ts]

\* store_batch: the products.json row
NewProduct(batch_id, data, ts) ==
    [productId |-> batch_id,
     userId |-> data.userId,
     batchName |-> data.batchName,
     manufacturerName |-> data.manufacturerName,
     productType |-> data.productType,
     fileHash |-> data.fileHash,
     greenfieldUrl |-> data.greenfieldUrl,
     txHash |-> data.txHash,
     createdAt |-> ts]

\* a store that puts the new row in the place of a row of the same batchId
StoreBatchRowOverwriting(bd, batch_id, data, ts) ==
    LET i == GetBatchIndex(bd, batch_id) IN
    IF i = 0
    THEN [batches |-> Append(bd.batches, NewBatch(batch_id, data, ts)),
          lastBatchId |-> bd.lastBatchId + 1]
    ELSE [bd EXCEPT !.batches[i] = NewBatch(batch_id, data, ts)]

\* store_batch, batches.json half: append unconditionally, bump the counter
StoreBatchRow(bd, batch_id, data, ts) ==
    [batches |-> Append(bd.batches, NewBatch(batch_id, data, ts)),
     lastBatchId |-> bd.lastBatchId + 1]

\* store_batch, products.json half
StoreProductRow(pd, batch_id, data, ts) ==
    [products |-> Append(pd.products, NewProduct(batch_id, data, ts)),
     lastProductId |-> pd.lastProductId + 1]

(***************************************************************************)
(* users.json once AuthService has been constructed on an empty data       *)
(* directory: it registers its two demo users.                             *)
(***************************************************************************)
DemoUsers ==
    [users |-> << NewUser(1, "manufacturer@techcorp.com",
                          "TechCorp Manufacturing", "manufacturer"),
                  NewUser(2, "supplier@logistics.com",
                          "Global Logistics Supplier", "supplier") >>,
     lastUserId |-> 2]

NoRequest == [op |-> "none", status |-> 0]

(***************************************************************************)
(* POST /api/upload (upload_file): register a batch.                       *)
(***************************************************************************)
\* x or default
OrDefault(x, d) == IF x = "" THEN d ELSE x

\* store_batch is reached only when neither upload_file (blob store) nor
\* store_product_hash (ledger) raised: either exception leaves the try block
BlobStored(fault) == fault # "blob"

Anchored(fault) == fault # "anchor"

PersistsDespiteAnchorFailure(fault) == BlobStored(fault)

ReachesStoreBatch(fault) == BlobStored(fault) /\ Anchored(fault)

Response(op, req, status, body) ==
    [op |-> op, req |-> req, status |-> status, body |-> body]

Failure(msg) == [success |-> FALSE, error |-> msg]

\* One request to /api/upload together with what its collaborators do:
\* sub   : the token's subject, None without an Authorization header,
\*         "bad" for a token decode_token rejects
\* file  : "ok", "missing" (no 'file' part) or "noname" (empty filename)
\* fault : "none", "blob" (_upload_mock raises), "anchor" (store_product_hash
\*         raises) or "qr" (generate_product_qr raises)
UploadRequest(sub, file, product_id, file_data, fault) ==
    [sub |-> sub, file |-> file, productId |-> product_id,
     data |-> file_data, fault |-> fault]

UploadRequests ==
    { UploadRequest(None, "ok", "LOT-001", "hello", "none"),
      UploadRequest("bad", "ok", "LOT-001", "hello", "none"),
      UploadRequest("9", "ok", "LOT-001", "hello", "none"),
      UploadRequest("1", "missing", "LOT-001", "hello", "none"),
      UploadRequest("1", "noname", "LOT-001", "hello", "none"),
      UploadRequest("1", "ok", "", "hello", "none") }
    \cup
    { UploadRequest(sub, "ok", product_id, file_data, "none") :
        sub \in UploaderSubjects, product_id \in ProductIds,
        file_data \in FileContents }
    \cup
    { UploadRequest("1", "ok", "LOT-001", "hello", fault) :
        fault \in {"blob", "anchor", "qr"} }

\* upload_file: the batch_data handed to store_batch; the form sends the
\* user's name as manufacturerName and leaves batchName and productType empty
BatchData(user, product_id, file_hash, greenfield_url, tx_hash) ==
    [manufacturerName |-> OrDefault(user.fullName, "Unknown Manufacturer"),
     batchName |-> OrDefault("", product_id),
     productType |-> OrDefault("", "Unknown"),
     fileHash |-> file_hash,
     greenfieldUrl |-> greenfield_url,
     txHash |-> tx_hash,
     userId |-> user.id]

UploadFile(req) ==
    LET product_id == req.productId
        file_data == req.data
        ui == UserIndex(users_data, SubjectId(req.sub))
        user == users_data.users[ui]
        file_hash == Sha256Hex(file_data)
        filename == ObjectName(product_id, now, "pdf")
        greenfield_url == GreenfieldUrl(filename)
        tx_hash == StoreProductHash(product_id, file_hash)
        batch_data == BatchData(user, product_id, file_hash, greenfield_url, tx_hash)
        early(status, msg) ==
            /\ last' = Response("upload", req, status, Failure(msg))
            /\ UNCHANGED <<uploads, batches_data, products_data, users_data,
                           anchored, registered>>
    IN
    /\ Len(batches_data.batches) < MaxBatches
    /\ UNCHANGED <<now, scans_data, pc, loc>>
    /\ IF req.sub = None THEN early(401, "Authorization header required")
       ELSE IF req.sub = "bad" THEN early(422, "Invalid token")
       ELSE IF ui = 0 THEN early(404, "User not found")
       ELSE IF req.file = "missing" THEN early(400, "No file provided")
       ELSE IF req.file = "noname" THEN early(400, "No file selected")
       ELSE IF product_id = "" THEN early(400, "Product ID is required")
       ELSE
         \* greenfield_service.upload_file
         /\ uploads' = IF BlobStored(req.fault)
                       THEN UploadMock(uploads, filename, file_data)
                       ELSE uploads
         \* blockchain_service.store_product_hash
         /\ anchored' = IF BlobStored(req.fault) /\ Anchored(req.fault)
                        THEN anchored \cup {[batchId |-> product_id,
                                             fileHash |-> file_hash,
                                             ref |-> tx_hash]}
                        ELSE anchored
         /\ IF ReachesStoreBatch(req.fault)
            THEN \* db_service.store_batch, auth_service.associate_blockchain_hash
                 /\ batches_data' = StoreBatchRow(batches_data, product_id,
                                                  batch_data, now)
                 /\ products_data' = StoreProductRow(products_data, product_id,
                                                     batch_data, now)
                 /\ users_data' = AssociateBlockchainHash(users_data, user.id,
                        [batchId |-> product_id, fileHash |-> file_hash,
                         txHash |-> tx_hash], now)
                 /\ IF req.fault # "qr"
                    THEN /\ last' = Response("upload", req, 200,
                                [success |-> TRUE, batchId |-> product_id,
                                 fileHash |-> file_hash,
                                 greenfieldUrl |-> greenfield_url,
                                 txHash |-> tx_hash])
                         /\ registered' = registered \cup {<<product_id, file_data>>}
                    ELSE /\ last' = Response("upload", req, 500,
                                Failure("Failed to generate product QR"))
                         /\ UNCHANGED registered
            ELSE /\ last' = Response("upload", req, 500,
                        Failure(IF ~BlobStored(req.fault)
                                THEN "Failed to upload file"
                                ELSE "Failed to store hash on blockchain"))
                 /\ UNCHANGED <<batches_data, products_data, users_data, registered>>

(***************************************************************************)
(* POST /api/verify (verify_product).                                      *)
(***************************************************************************)
\* no greenfieldUrl in the request body
NoUrl == [scheme |-> "", bucket |-> "", filename |-> ""]

VerifyRequest(authed, product_id, url) ==
    [authed |-> authed, productId |-> product_id, greenfieldUrl |-> url]

\* the URLs sent with every product id: none, and the URL of every object
\* uploaded so far; a URL of another site and the URL of an object that does
\* not exist are sent with one product id
VerifyUrls(files) ==
    {NoUrl} \cup {GreenfieldUrl(f) : f \in DOMAIN files}

VerifyRequests(files) ==
    { VerifyRequest(FALSE, "LOT-001", NoUrl),
      VerifyRequest(TRUE, "", NoUrl),
      VerifyRequest(TRUE, "LOT-001", ForeignUrl),
      VerifyRequest(TRUE, "LOT-001", AbsentUrl) }
    \cup
    { VerifyRequest(TRUE, product_id, url) :
        product_id \in ProductIds, url \in VerifyUrls(files) }

\* the hash the stored one is compared with
CurrentHash(files, url, stored_hash) ==
    IF url # NoUrl
    THEN Sha256Hex(DownloadFile(files, url))
    ELSE stored_hash

\* the JSON body of a verdict
Verdict(product_id, stored_hash, current_hash) ==
    LET is_verified == stored_hash = current_hash IN
    [success |-> TRUE,
     isVerified |-> is_verified,
     productId |-> product_id,
     storedHash |-> stored_hash,
     currentHash |-> current_hash,
     message |-> IF is_verified THEN "Product is authentic"
                 ELSE "Product has been tampered with"]

VerifyProduct(req) ==
    LET product_id == req.productId
        stored_hash == GetProductHash(product_id)
        current_hash == CurrentHash(uploads, req.greenfieldUrl, stored_hash)
    IN
    /\ last' =
        IF ~req.authed
        THEN Response("verify", req, 401,
                      Failure("Authorization header is expected"))
        ELSE IF product_id = ""
        THEN Response("verify", req, 400, Failure("Product ID is required"))
        ELSE IF stored_hash = None
        THEN Response("verify", req, 200,
                      [success |-> TRUE, isVerified |-> FALSE,
                       error |-> "Product not found on blockchain",
                       productId |-> product_id])
        ELSE Response("verify", req, 200,
                      Verdict(product_id, stored_hash, current_hash))
    /\ UNCHANGED <<now, uploads, batches_data, products_data, scans_data,
                   users_data, anchored, registered, pc, loc>>

(***************************************************************************)
(* POST /api/scan (scan_product) and DatabaseService.record_scan.          *)
(***************************************************************************)
\* scan_data.get('location', 'Unknown')
LocationOf(scan_data) ==
    IF "location" \in DOMAIN scan_data THEN scan_data.location ELSE "Unknown"

\* a scan event in which every key of the caller's scan_data wins
ScanRecordCallerWins(sd, batch_id, scan_data, ts) ==
    scan_data
    @@ [timestamp |-> ts, location |-> LocationOf(scan_data)]
    @@ [id |-> ToString(sd.lastScanId + 1), batchId |-> batch_id]

\* record_scan: the scan event {'id', 'batchId', **scan_data, 'timestamp',
\* 'location'}.  A key written later in the dict display replaces an
\* earlier one of the same name: 'timestamp' and 'location' replace the
\* caller's, the caller's keys replace 'id' and 'batchId'.
ScanRecord(sd, batch_id, scan_data, ts) ==
    [timestamp |-> ts, location |-> LocationOf(scan_data)]
    @@ scan_data
    @@ [id |-> ToString(sd.lastScanId + 1), batchId |-> batch_id]

\* record_scan: batch['scans'].append(scan_record); batch['lastActivity'] = now
BatchWithOnlyLatestScan(batch, scan_record, ts) ==
    [batch EXCEPT !.scans = <<scan_record>>, !.lastActivity = ts]

BatchWithScan(batch, scan_record, ts) ==
    [batch EXCEPT !.scans = Append(@, scan_record), !.lastActivity = ts]

\* record_scan: the first row with that batchId is replaced by the batch
ReplaceBatch(bd, batch_id, batch) ==
    LET i == GetBatchIndex(bd, batch_id) IN
    IF i = 0 THEN bd ELSE [bd EXCEPT !.batches[i] = batch]

\* an append that leaves lastScanId as it was
AppendScanKeepingCounter(sd, scan_record) ==
    [scans |-> Append(sd.scans, scan_record), lastScanId |-> sd.lastScanId]

\* record_scan: scans_data['scans'].append(...); scans_data['lastScanId'] += 1
AppendScan(sd, scan_record) ==
    [scans |-> Append(sd.scans, scan_record), lastScanId |-> sd.lastScanId + 1]

\* qr : "" (no qrData), "badjson" (qrData that is not JSON) or the productId
\*      of the QR payload
ScanRequest(sub, qr, supplier_name) ==
    [sub |-> sub, qr |-> qr, supplierName |-> supplier_name,
     supplierLocation |-> ""]

ScanRequests ==
    { ScanRequest(None, "LOT-001", "Acme Freight"),
      ScanRequest("2", "", "Acme Freight"),
      ScanRequest("2", "LOT-001", ""),
      ScanRequest("2", "badjson", "Acme Freight"),
      ScanRequest("2", "LOT-404", "Acme Freight") }
    \cup
    { ScanRequest("2", product_id, "Global Logistics Supplier") :
        product_id \in ProductIds }

ScanProduct(req) ==
    LET batch_id == req.qr
        scan_data == [supplierName |-> req.supplierName,
                      supplierLocation |-> OrDefault(req.supplierLocation, "Unknown"),
                      scannerUsername |-> req.sub]
        batch == GetBatch(batches_data, batch_id)
        scan_record == ScanRecord(scans_data, batch_id, scan_data, now)
        early(status, msg) ==
            /\ last' = Response("scan", req, status, Failure(msg))
            /\ UNCHANGED <<batches_data, scans_data>>
    IN
    /\ Len(scans_data.scans) < MaxScans
    /\ UNCHANGED <<now, uploads, products_data, users_data, anchored,
                   registered, pc, loc>>
    /\ IF req.sub = None THEN early(401, "Authorization header is expected")
       ELSE IF req.qr = "" \/ req.supplierName = ""
       THEN early(400, "QR data and supplier name are required")
       ELSE IF req.qr = "badjson" THEN early(400, "Invalid QR code format")
       ELSE IF ~HasBatch(batches_data, batch_id) THEN early(404, "Batch not found")
       ELSE
         \* db_service.record_scan
         /\ batches_data' = ReplaceBatch(batches_data, batch_id,
                                BatchWithScan(batch, scan_record, now))
         /\ scans_data' = AppendScan(scans_data, scan_record)
         /\ last' = Response("scan", req, 200,
                        [success |-> TRUE,
                         batchId |-> batch_id,
                         scanRecord |-> [scanId |-> scan_record.id,
                                         timestamp |-> scan_record.timestamp,
                                         supplierName |-> scan_record.supplierName]])

(***************************************************************************)
(* DatabaseService.get_user_dashboard and its role views.  A scan shown by *)
(* a view is the stored scan event plus the view's productName; the other  *)
(* keys the views copy are left out.                                       *)
(***************************************************************************)
\* recent_scans[:10], my_scans[:10]
RecentLimit == 10

DashboardScan(scan, batch_id, product_name) ==
    [id |-> scan.id, batchId |-> batch_id, supplierName |-> scan.supplierName,
     timestamp |-> scan.timestamp, productName |-> product_name]

Take(s, n) == IF Len(s) <= n THEN s ELSE SubSeq(s, 1, n)

\* list.sort(key=timestamp, reverse=True): a stable sort, entries of equal
\* timestamp keep the order they had in the list
RECURSIVE SortNewestFirst(_)
SortNewestFirst(s) ==
    IF s = <<>> THEN <<>>
    ELSE LET sorted == SortNewestFirst(SubSeq(s, 1, Len(s) - 1))
             x == s[Len(s)]
             k == Cardinality({i \in DOMAIN sorted :
                                 sorted[i].timestamp >= x.timestamp})
         IN SubSeq(sorted, 1, k) \o <<x>> \o SubSeq(sorted, k + 1, Len(sorted))

\* the supplier names of a list of scans that are truthy
SupplierSet(scans) ==
    {scans[i].supplierName : i \in DOMAIN scans} \ {""}

\* _get_manufacturer_dashboard, lines 186-200: the scans nested in the
\* manufacturer's batch rows
RECURSIVE NestedScansOfOwner(_, _)
NestedScansOfOwner(rows, user_id) ==
    IF rows = <<>> THEN <<>>
    ELSE LET batch == Head(rows) IN
         (IF batch.userId = user_id
          THEN [k \in DOMAIN batch.scans |->
                    DashboardScan(batch.scans[k], batch.batchId, batch.batchName)]
          ELSE <<>>) \o NestedScansOfOwner(Tail(rows), user_id)

\* a lookup that falls back on the first row when no row matches
FirstRowOrFallback(rows, key, batch_id) ==
    IF \E i \in DOMAIN rows : rows[i][key] = batch_id
    THEN CHOOSE i \in DOMAIN rows :
            /\ rows[i][key] = batch_id
            /\ \A j \in 1..(i - 1) : rows[j][key] # batch_id
    ELSE IF rows # <<>> THEN 1 ELSE 0

\* the first row of `rows` whose `key` field is batch_id, 0 when there is none
FirstRowIndex(rows, key, batch_id) ==
    IF \E i \in DOMAIN rows : rows[i][key] = batch_id
    THEN CHOOSE i \in DOMAIN rows :
            /\ rows[i][key] = batch_id
            /\ \A j \in 1..(i - 1) : rows[j][key] # batch_id
    ELSE 0

\* _get_manufacturer_dashboard, lines 208-230: the scans of scans.json whose
\* batchId is one of the manufacturer's batch or product ids
RECURSIVE ScansJsonOfOwner(_, _, _, _)
ScansJsonOfOwner(scans, ids, owned, products) ==
    IF scans = <<>> THEN <<>>
    ELSE LET scan == Head(scans)
             bi == FirstRowIndex(owned, "batchId", scan.batchId)
             pi == FirstRowIndex(products, "productId", scan.batchId)
             product_name == IF bi # 0 THEN owned[bi].batchName
                             ELSE IF pi # 0 THEN products[pi].batchName
                             ELSE "Unknown Product"
         IN (IF scan.batchId \in ids
             THEN <<DashboardScan(scan, scan.batchId, product_name)>>
             ELSE <<>>) \o ScansJsonOfOwner(Tail(scans), ids, owned, products)

ManufacturerDashboard(user_id, user_name, bd, sd, pd) ==
    LET manufacturer_batches == SelectSeq(bd.batches, LAMBDA b : b.userId = user_id)
        manufacturer_batch_ids ==
            {manufacturer_batches[i].batchId : i \in DOMAIN manufacturer_batches}
            \cup {pd.products[i].productId :
                    i \in {j \in DOMAIN pd.products : pd.products[j].userId = user_id}}
        recent_scans ==
            NestedScansOfOwner(bd.batches, user_id)
            \o ScansJsonOfOwner(sd.scans, manufacturer_batch_ids,
                                manufacturer_batches, pd.products)
        sorted == SortNewestFirst(recent_scans)
    IN [success |-> TRUE,
        userId |-> user_id,
        userName |-> user_name,
        role |-> "manufacturer",
        totalBatches |-> Len(manufacturer_batches),
        totalScans |-> Len(recent_scans),
        totalSuppliers |-> Cardinality(SupplierSet(recent_scans)),
        batches |-> manufacturer_batches,
        recentScans |-> Take(sorted, RecentLimit),
        supplierList |-> SupplierSet(recent_scans),
        allScans |-> sorted]

\* the accumulators of _get_supplier_dashboard: my_scans, scanned_batches,
\* unique_manufacturers
NoScansSeen == [my_scans |-> <<>>, scanned_batches |-> <<>>, manufacturers |-> {}]

\* sum(1 for s in my_scans if s.get('batchId') == batch_id)
CountFor(my_scans, batch_id) ==
    Cardinality({k \in DOMAIN my_scans : my_scans[k].batchId = batch_id})

\* any(b.get('batchId') == batch_id for b in scanned_batches)
AlreadyListed(scanned_batches, batch_id) ==
    \E k \in DOMAIN scanned_batches : scanned_batches[k].batchId = batch_id

\* {**batch_info, 'lastScanned': ..., 'scanCount': ...}; a products.json row
\* has a productId and no batchId key
ScannedBatch(batch_id, manufacturer_name, last_scanned, scan_count) ==
    [batchId |-> batch_id, manufacturerName |-> manufacturer_name,
     lastScanned |-> last_scanned, scanCount |-> scan_count]

\* _get_supplier_dashboard, lines 256-285: the loop over scans.json
RECURSIVE ScansJsonLoop(_, _, _, _, _)
ScansJsonLoop(acc, scans, user_name, bd, pd) ==
    IF scans = <<>> THEN acc
    ELSE LET scan == Head(scans)
             my == Append(acc.my_scans, DashboardScan(scan, scan.batchId, None))
             bi == FirstRowIndex(bd.batches, "batchId", scan.batchId)
             pi == FirstRowIndex(pd.products, "productId", scan.batchId)
             manufacturer_name == IF bi # 0 THEN bd.batches[bi].manufacturerName
                                  ELSE pd.products[pi].manufacturerName
             entry == ScannedBatch(IF bi # 0 THEN scan.batchId ELSE None,
                                   manufacturer_name, scan.timestamp,
                                   CountFor(my, scan.batchId))
         IN IF scan.supplierName # user_name
            THEN ScansJsonLoop(acc, Tail(scans), user_name, bd, pd)
            ELSE IF bi = 0 /\ pi = 0
            THEN ScansJsonLoop([acc EXCEPT !.my_scans = my],
                               Tail(scans), user_name, bd, pd)
            ELSE ScansJsonLoop(
                    [my_scans |-> my,
                     scanned_batches |->
                        IF AlreadyListed(acc.scanned_batches, scan.batchId)
                        THEN acc.scanned_batches
                        ELSE Append(acc.scanned_batches, entry),
                     manufacturers |-> acc.manufacturers \cup {manufacturer_name}],
                    Tail(scans), user_name, bd, pd)

\* _get_supplier_dashboard, lines 289-307: the scans nested in one batch row
RECURSIVE LegacyScansOfBatch(_, _, _, _)
LegacyScansOfBatch(acc, scans, user_name, batch) ==
    IF scans = <<>> THEN acc
    ELSE LET scan == Head(scans)
             my == Append(acc.my_scans,
                          DashboardScan(scan, batch.batchId, batch.batchName))
             entry == ScannedBatch(batch.batchId, batch.manufacturerName,
                                   scan.timestamp, CountFor(my, batch.batchId))
         IN IF scan.supplierName # user_name
            THEN LegacyScansOfBatch(acc, Tail(scans), user_name, batch)
            ELSE LegacyScansOfBatch(
                    [my_scans |-> my,
                     scanned_batches |->
                        IF AlreadyListed(acc.scanned_batches, batch.batchId)
                        THEN acc.scanned_batches
                        ELSE Append(acc.scanned_batches, entry),
                     manufacturers |->
                        acc.manufacturers \cup {batch.manufacturerName}],
                    Tail(scans), user_name, batch)

\* _get_supplier_dashboard, line 288: the loop over the batch rows
RECURSIVE LegacyScansLoop(_, _, _)
LegacyScansLoop(acc, rows, user_name) ==
    IF rows = <<>> THEN acc
    ELSE LegacyScansLoop(
            LegacyScansOfBatch(acc, Head(rows).scans, user_name, Head(rows)),
            Tail(rows), user_name)

SupplierDashboard(user_id, user_name, bd, sd, pd) ==
    LET acc == LegacyScansLoop(
                    ScansJsonLoop(NoScansSeen, sd.scans, user_name, bd, pd),
                    bd.batches, user_name)
        sorted == SortNewestFirst(acc.my_scans)
    IN [success |-> TRUE,
        userId |-> user_id,
        userName |-> user_name,
        role |-> "supplier",
        totalScans |-> Len(acc.my_scans),
        totalBatches |-> Len(acc.scanned_batches),
        totalManufacturers |-> Cardinality(acc.manufacturers),
        scannedBatches |-> acc.scanned_batches,
        recentScans |-> Take(sorted, RecentLimit),
        manufacturerList |-> acc.manufacturers,
        allScans |-> sorted]

\* _get_general_user_dashboard: the loop over scans.json alone; its batch
\* annotations are called lastViewed and viewCount
GeneralUserDashboard(user_id, user_name, bd, sd, pd) ==
    LET acc == ScansJsonLoop(NoScansSeen, sd.scans, user_name, bd, pd)
        sorted == SortNewestFirst(acc.my_scans)
    IN [success |-> TRUE,
        userId |-> user_id,
        userName |-> user_name,
        role |-> "user",
        totalScans |-> Len(acc.my_scans),
        totalBatches |-> Len(acc.scanned_batches),
        totalManufacturers |-> Cardinality(acc.manufacturers),
        viewedBatches |->
            [k \in DOMAIN acc.scanned_batches |->
                [batchId |-> acc.scanned_batches[k].batchId,
                 manufacturerName |-> acc.scanned_batches[k].manufacturerName,
                 lastViewed |-> acc.scanned_batches[k].lastScanned,
                 viewCount |-> acc.scanned_batches[k].scanCount]],
        recentScans |-> Take(sorted, RecentLimit),
        manufacturerList |-> acc.manufacturers,
        allScans |-> sorted]

\* get_user_dashboard: the user is looked up by id, the view by the role
GetUserDashboard(user_id, bd, sd, pd, ud) ==
    LET ui == UserIndex(ud, SubjectId(user_id))
        user == ud.users[ui]
    IN IF ui = 0 THEN Failure("User not found")
       ELSE IF user.role = "manufacturer"
       THEN ManufacturerDashboard(user.id, user.fullName, bd, sd, pd)
       ELSE IF user.role = "supplier"
       THEN SupplierDashboard(user.id, user.fullName, bd, sd, pd)
       ELSE GeneralUserDashboard(user.id, user.fullName, bd, sd, pd)

(***************************************************************************)
(* DatabaseService.record_scan, store_batch and get_user_dashboard, one     *)
(* file access at a time.  Each request thread makes one call; pc[t] is    *)
(* the source line of its next file access (L: record_scan, S:             *)
(* store_batch, D: get_user_dashboard) and loc[t] holds its local          *)
(* variables.  A file is read and written as a whole.                      *)
(***************************************************************************)
Threads == 1..NumThreads

NoBatch ==
    NewBatch("", BatchData([fullName |-> "", id |-> 0], "", "", NoUrl, ""), 0)

NoScanRecord ==
    ScanRecord([scans |-> <<>>, lastScanId |-> 0], "",
               [supplierName |-> "", supplierLocation |-> "",
                scannerUsername |-> ""], 0)

NoLocals ==
    [batch_id |-> "",
     scan_data |-> [supplierName |-> "", supplierLocation |-> "",
                    scannerUsername |-> ""],
     batch |-> NoBatch,
     scans_data |-> [scans |-> <<>>, lastScanId |-> 0],
     scan_record |-> NoScanRecord,
     batches_data |-> [batches |-> <<>>, lastBatchId |-> 0],
     products_data |-> [products |-> <<>>, lastProductId |-> 0],
     user_id |-> "",
     dashboard |-> Failure(""),
     users_data |-> [users |-> <<>>, lastUserId |-> 0],
     hash_data |-> [batchId |-> "", fileHash |-> "", txHash |-> ""],
     email |-> "",
     password_ok |-> FALSE,
     new_user_id |-> 0,
     returned |-> ""]

\* the state after POST /api/upload has registered "hello" as LOT-001 and
\* "hello!" as LOT-002 for user 1
InitConc ==
    LET user == DemoUsers.users[1]
        h1 == Sha256Hex("hello")
        h2 == Sha256Hex("hello!")
        f1 == ObjectName("LOT-001", 0, "pdf")
        f2 == ObjectName("LOT-002", 0, "pdf")
        t1 == StoreProductHash("LOT-001", h1)
        t2 == StoreProductHash("LOT-002", h2)
        d1 == BatchData(user, "LOT-001", h1, GreenfieldUrl(f1), t1)
        d2 == BatchData(user, "LOT-002", h2, GreenfieldUrl(f2), t2)
        empty_b == [batches |-> <<>>, lastBatchId |-> 0]
        empty_p == [products |-> <<>>, lastProductId |-> 0]
    IN
    /\ now = 0
    /\ uploads = UploadMock(UploadMock(<< >>, f1, "hello"), f2, "hello!")
    /\ batches_data = StoreBatchRow(StoreBatchRow(empty_b, "LOT-001", d1, 0),
                                    "LOT-002", d2, 0)
    /\ products_data = StoreProductRow(StoreProductRow(empty_p, "LOT-001", d1, 0),
                                       "LOT-002", d2, 0)
    /\ scans_data = [scans |-> <<>>, lastScanId |-> 0]
    /\ users_data = AssociateBlockchainHash(
                        AssociateBlockchainHash(DemoUsers, 1,
                            [batchId |-> "LOT-001", fileHash |-> h1, txHash |-> t1], 0),
                        1, [batchId |-> "LOT-002", fileHash |-> h2, txHash |-> t2], 0)
    /\ anchored = {[batchId |-> "LOT-001", fileHash |-> h1, ref |-> t1],
                   [batchId |-> "LOT-002", fileHash |-> h2, ref |-> t2]}
    /\ registered = {<<"LOT-001", "hello">>, <<"LOT-002", "hello!">>}
    /\ last = NoRequest
    /\ pc = [t \in Threads |-> "idle"]
    /\ loc = [t \in Threads |-> NoLocals]

ConcFrame == <<now, uploads, products_data, users_data, anchored, registered, last>>

\* a request thread enters record_scan(batch_id, scan_data)
RecordScanCall(t, batch_id, supplier_name) ==
    /\ pc[t] = "idle"
    /\ pc' = [pc EXCEPT ![t] = "L113"]
    /\ loc' = [loc EXCEPT ![t] =
                [NoLocals EXCEPT
                    !.batch_id = batch_id,
                    !.scan_data = [supplierName |-> supplier_name,
                                   supplierLocation |-> "Unknown",
                                   scannerUsername |-> "2"]]]
    /\ UNCHANGED <<batches_data, scans_data, ConcFrame>>

\* line 113: batch = self.get_batch(batch_id), a read of batches.json
RecordScanGetBatch(t) ==
    /\ pc[t] = "L113"
    /\ IF HasBatch(batches_data, loc[t].batch_id)
       THEN /\ loc' = [loc EXCEPT ![t].batch = GetBatch(batches_data, loc[t].batch_id)]
            /\ pc' = [pc EXCEPT ![t] = "L117"]
       ELSE /\ loc' = [loc EXCEPT ![t].returned = "None"]
            /\ pc' = [pc EXCEPT ![t] = "done"]
    /\ UNCHANGED <<batches_data, scans_data, ConcFrame>>

\* line 117: a read of scans.json; lines 119-129 build the scan record from
\* it and append it to the thread's copy of the batch
RecordScanLoadScans(t) ==
    LET rec == ScanRecord(scans_data, loc[t].batch_id, loc[t].scan_data, now) IN
    /\ pc[t] = "L117"
    /\ loc' = [loc EXCEPT ![t].scans_data = scans_data,
                          ![t].scan_record = rec,
                          ![t].batch = BatchWithScan(loc[t].batch, rec, now)]
    /\ pc' = [pc EXCEPT ![t] = "L132"]
    /\ UNCHANGED <<batches_data, scans_data, ConcFrame>>

\* line 132: a second read of batches.json; lines 133-136 put the thread's
\* copy of the batch in the place of the first row with its batchId
RecordScanLoadBatches(t) ==
    /\ pc[t] = "L132"
    /\ loc' = [loc EXCEPT ![t].batches_data =
                ReplaceBatch(batches_data, loc[t].batch_id, loc[t].batch)]
    /\ pc' = [pc EXCEPT ![t] = "L138"]
    /\ UNCHANGED <<batches_data, scans_data, ConcFrame>>

\* line 138: batches.json is rewritten from the thread's copy
RecordScanSaveBatches(t) ==
    /\ pc[t] = "L138"
    /\ batches_data' = loc[t].batches_data
    /\ pc' = [pc EXCEPT ![t] = "L143"]
    /\ UNCHANGED <<loc, scans_data, ConcFrame>>

\* lines 141-143: scans.json is rewritten from the thread's copy plus its
\* scan record; line 145 returns the record
RecordScanSaveScans(t) ==
    /\ pc[t] = "L143"
    /\ scans_data' = AppendScan(loc[t].scans_data, loc[t].scan_record)
    /\ loc' = [loc EXCEPT ![t].returned = "scan_record"]
    /\ pc' = [pc EXCEPT ![t] = "done"]
    /\ UNCHANGED <<batches_data, ConcFrame>>

\* what is unchanged by every step of store_batch
StoreFrame == <<now, uploads, scans_data, users_data, anchored, registered, last>>

\* the batchIds store_batch is called with: batches other than the two the
\* start state holds
NewProductIds == {"LOT-003"}

\* the data upload_file hands to store_batch for a file "hello" of user 1
StoreBatchData(batch_id) ==
    BatchData(DemoUsers.users[1], batch_id, Sha256Hex("hello"),
              GreenfieldUrl(ObjectName(batch_id, 0, "pdf")),
              StoreProductHash(batch_id, Sha256Hex("hello")))

\* a request thread enters store_batch(batch_id, data)
StoreBatchCall(t, batch_id) ==
    /\ pc[t] = "idle"
    /\ pc' = [pc EXCEPT ![t] = "S51"]
    /\ loc' = [loc EXCEPT ![t] = [NoLocals EXCEPT !.batch_id = batch_id]]
    /\ UNCHANGED <<batches_data, products_data, StoreFrame>>

\* line 51: a read of batches.json; lines 53-71 append the new row to the
\* thread's copy
StoreBatchLoadBatches(t) ==
    /\ pc[t] = "S51"
    /\ loc' = [loc EXCEPT ![t].batches_data =
                StoreBatchRow(batches_data, loc[t].batch_id,
                              StoreBatchData(loc[t].batch_id), now)]
    /\ pc' = [pc EXCEPT ![t] = "S74"]
    /\ UNCHANGED <<batches_data, products_data, StoreFrame>>

\* line 74: batches.json is rewritten from the thread's copy
StoreBatchSaveBatches(t) ==
    /\ pc[t] = "S74"
    /\ batches_data' = loc[t].batches_data
    /\ pc' = [pc EXCEPT ![t] = "S77"]
    /\ UNCHANGED <<loc, products_data, StoreFrame>>

\* line 77: a read of products.json; lines 79-96 append the product row to
\* the thread's copy
StoreBatchLoadProducts(t) ==
    /\ pc[t] = "S77"
    /\ loc' = [loc EXCEPT ![t].products_data =
                StoreProductRow(products_data, loc[t].batch_id,
                                StoreBatchData(loc[t].batch_id), now)]
    /\ pc' = [pc EXCEPT ![t] = "S97"]
    /\ UNCHANGED <<batches_data, products_data, StoreFrame>>

\* line 97: products.json is rewritten; line 99 returns the batch
StoreBatchSaveProducts(t) ==
    /\ pc[t] = "S97"
    /\ products_data' = loc[t].products_data
    /\ loc' = [loc EXCEPT ![t].returned = "batch"]
    /\ pc' = [pc EXCEPT ![t] = "stored"]
    /\ UNCHANGED <<batches_data, StoreFrame>>

\* a request thread enters get_user_dashboard(user_id)
DashboardCall(t, user_id) ==
    /\ pc[t] = "idle"
    /\ pc' = [pc EXCEPT ![t] = "D149"]
    /\ loc' = [loc EXCEPT ![t] = [NoLocals EXCEPT !.user_id = user_id]]
    /\ UNCHANGED <<batches_data, scans_data, ConcFrame>>

\* line 149: a read of batches.json
DashboardLoadBatches(t) ==
    /\ pc[t] = "D149"
    /\ loc' = [loc EXCEPT ![t].batches_data = batches_data]
    /\ pc' = [pc EXCEPT ![t] = "D150"]
    /\ UNCHANGED <<batches_data, scans_data, ConcFrame>>

\* line 150: a read of scans.json
DashboardLoadScans(t) ==
    /\ pc[t] = "D150"
    /\ loc' = [loc EXCEPT ![t].scans_data = scans_data]
    /\ pc' = [pc EXCEPT ![t] = "D151"]
    /\ UNCHANGED <<batches_data, scans_data, ConcFrame>>

\* lines 151-152: reads of products.json and users.json; lines 154-175
\* compute the role view from the four copies and return it
DashboardLoadProducts(t) ==
    /\ pc[t] = "D151"
    /\ loc' = [loc EXCEPT
                ![t].products_data = products_data,
                ![t].returned = "dashboard",
                ![t].dashboard =
                    GetUserDashboard(loc[t].user_id, loc[t].batches_data,
                                     loc[t].scans_data, products_data, users_data)]
    /\ pc' = [pc EXCEPT ![t] = "read"]
    /\ UNCHANGED <<batches_data, scans_data, ConcFrame>>

\* the supplier names record_scan is called with; it is handed whatever
\* its caller passes, the empty name included
DirectSupplierNames == SupplierNames \cup {""}

NextConc ==
    \E t \in Threads :
        \/ \E batch_id \in ProductIds \cup {"LOT-404"},
              supplier_name \in DirectSupplierNames :
                RecordScanCall(t, batch_id, supplier_name)
        \/ RecordScanGetBatch(t)
        \/ RecordScanLoadScans(t)
        \/ RecordScanLoadBatches(t)
        \/ RecordScanSaveBatches(t)
        \/ RecordScanSaveScans(t)
        \/ \E batch_id \in NewProductIds : StoreBatchCall(t, batch_id)
        \/ StoreBatchLoadBatches(t)
        \/ StoreBatchSaveBatches(t)
        \/ StoreBatchLoadProducts(t)
        \/ StoreBatchSaveProducts(t)
        \/ \E user_id \in {"1", "2"} : DashboardCall(t, user_id)
        \/ DashboardLoadBatches(t)
        \/ DashboardLoadScans(t)
        \/ DashboardLoadProducts(t)

SpecConc == InitConc /\ [][NextConc]_vars

Init ==
    /\ now = 0
    /\ uploads = << >>
    /\ batches_data = [batches |-> <<>>, lastBatchId |-> 0]
    /\ products_data = [products |-> <<>>, lastProductId |-> 0]
    /\ scans_data = [scans |-> <<>>, lastScanId |-> 0]
    /\ users_data = DemoUsers
    /\ anchored = {}
    /\ registered = {}
    /\ last = NoRequest
    /\ pc = [t \in Threads |-> "idle"]
    /\ loc = [t \in Threads |-> NoLocals]

Next ==
    \/ \E req \in UploadRequests : UploadFile(req)
    \/ \E req \in VerifyRequests(uploads) : VerifyProduct(req)
    \/ \E req \in ScanRequests : ScanProduct(req)

Spec == Init /\ [][Next]_vars

(***************************************************************************)
(* GET /api/dashboard/<user_id> (get_dashboard).                           *)
(***************************************************************************)
DashboardRequest(authed, user_id) == [authed |-> authed, userId |-> user_id]

DashboardRequests ==
    {DashboardRequest(FALSE, "1")}
    \cup {DashboardRequest(TRUE, user_id) : user_id \in {"1", "2", "3", "9"}}

GetDashboard(req) ==
    /\ last' =
        IF ~req.authed
        THEN Response("dashboard", req, 401,
                      Failure("Authorization header is expected"))
        ELSE Response("dashboard", req, 200,
                      GetUserDashboard(req.userId, batches_data, scans_data,
                                       products_data, users_data))
    /\ UNCHANGED <<now, uploads, batches_data, products_data, scans_data,
                   users_data, anchored, registered, pc, loc>>

(***************************************************************************)
(* Scans and dashboard reads while time passes.  The start is the state    *)
(* after a third user of role 'user' has registered and POST /api/upload   *)
(* has registered "hello" as LOT-001 for user 1 and "hello!" as LOT-002    *)
(* for user 2.                                                             *)
(***************************************************************************)
RegisteredStart(sd) ==
    LET users == [users |-> Append(DemoUsers.users,
                                   NewUser(3, "driver@acme.example",
                                           "Acme Freight", "user")),
                  lastUserId |-> 3]
        h1 == Sha256Hex("hello")
        h2 == Sha256Hex("hello!")
        f1 == ObjectName("LOT-001", 0, "pdf")
        f2 == ObjectName("LOT-002", 0, "pdf")
        t1 == StoreProductHash("LOT-001", h1)
        t2 == StoreProductHash("LOT-002", h2)
        d1 == BatchData(users.users[1], "LOT-001", h1, GreenfieldUrl(f1), t1)
        d2 == BatchData(users.users[2], "LOT-002", h2, GreenfieldUrl(f2), t2)
        empty_b == [batches |-> <<>>, lastBatchId |-> 0]
        empty_p == [products |-> <<>>, lastProductId |-> 0]
    IN
    /\ now = 0
    /\ uploads = UploadMock(UploadMock(<< >>, f1, "hello"), f2, "hello!")
    /\ batches_data = StoreBatchRow(StoreBatchRow(empty_b, "LOT-001", d1, 0),
                                    "LOT-002", d2, 0)
    /\ products_data = StoreProductRow(StoreProductRow(empty_p, "LOT-001", d1, 0),
                                       "LOT-002", d2, 0)
    /\ scans_data = sd
    /\ users_data = AssociateBlockchainHash(
                        AssociateBlockchainHash(users, 1,
                            [batchId |-> "LOT-001", fileHash |-> h1, txHash |-> t1], 0),
                        2, [batchId |-> "LOT-002", fileHash |-> h2, txHash |-> t2], 0)
    /\ anchored = {[batchId |-> "LOT-001", fileHash |-> h1, ref |-> t1],
                   [batchId |-> "LOT-002", fileHash |-> h2, ref |-> t2]}
    /\ registered = {<<"LOT-001", "hello">>, <<"LOT-002", "hello!">>}
    /\ last = NoRequest
    /\ pc = [t \in Threads |-> "idle"]
    /\ loc = [t \in Threads |-> NoLocals]

InitDashboard == RegisteredStart([scans |-> <<>>, lastScanId |-> 0])

\* scans.json holding one scan of a batchId that has neither a batch row nor
\* a product row
OrphanLog(supplier_name) ==
    AppendScan([scans |-> <<>>, lastScanId |-> 0],
               ScanRecord([scans |-> <<>>, lastScanId |-> 0], "LOT-404",
                          [supplierName |-> supplier_name,
                           supplierLocation |-> "Unknown",
                           scannerUsername |-> "2"], 0))

InitOrphan == \E supplier_name \in SupplierNames :
                RegisteredStart(OrphanLog(supplier_name))

\* datetime.utcnow() moves on by a second
Tick ==
    /\ now < MaxClock
    /\ now' = now + 1
    /\ UNCHANGED <<uploads, batches_data, products_data, scans_data, users_data,
                   anchored, registered, last, pc, loc>>

\* scans of either batch under either supplier name
DashboardScanRequests ==
    { ScanRequest("2", product_id, supplier_name) :
        product_id \in ProductIds, supplier_name \in SupplierNames }

NextDashboard ==
    \/ Tick
    \/ \E req \in DashboardScanRequests : ScanProduct(req)
    \/ \E req \in DashboardRequests : GetDashboard(req)

SpecDashboard == InitDashboard /\ [][NextDashboard]_vars

\* the same requests, starting with an orphaned scan in scans.json
SpecOrphan == InitOrphan /\ [][NextDashboard]_vars

(***************************************************************************)
(* DatabaseService called directly, one call at a time, while time passes. *)
(* The start is the start of SpecDashboard.                                *)
(***************************************************************************)
\* the scan data the /api/scan route builds for a supplier name
RouteScanData(supplier_name) ==
    [supplierName |-> supplier_name, supplierLocation |-> "Unknown",
     scannerUsername |-> "2"]

\* the scan data record_scan is handed: what the route builds, and the same
\* with a 'timestamp' or a 'batchId' key of the caller's
DirectScanData ==
    { RouteScanData(supplier_name) : supplier_name \in SupplierNames }
    \cup { [timestamp |-> 99] @@ RouteScanData("Acme Freight"),
            [batchId |-> "LOT-002"] @@ RouteScanData("Acme Freight") }

\* what a service method returned to its caller: status 1 with the value,
\* status 0 for None
Returned(op, req, value) == [op |-> op, req |-> req, status |-> 1, body |-> value]

ReturnedNone(op, req) == [op |-> op, req |-> req, status |-> 0, body |-> None]

\* record_scan(batch_id, scan_data), from entry to return
RecordScan(batch_id, scan_data) ==
    LET req == [batchId |-> batch_id, scanData |-> scan_data]
        batch == GetBatch(batches_data, batch_id)
        scan_record == ScanRecord(scans_data, batch_id, scan_data, now)
    IN
    /\ Len(scans_data.scans) < MaxScans
    /\ UNCHANGED <<now, uploads, products_data, users_data, anchored,
                   registered, pc, loc>>
    /\ IF ~HasBatch(batches_data, batch_id)
       THEN /\ last' = ReturnedNone("record_scan", req)
            /\ UNCHANGED <<batches_data, scans_data>>
       ELSE /\ batches_data' = ReplaceBatch(batches_data, batch_id,
                                    BatchWithScan(batch, scan_record, now))
            /\ scans_data' = AppendScan(scans_data, scan_record)
            /\ last' = Returned("record_scan", req, scan_record)

\* str.lower(), for the letters A-Z
UpperCase == "ABCDEFGHIJKLMNOPQRSTUVWXYZ"
LowerCase == "abcdefghijklmnopqrstuvwxyz"

LowerOf ==
    [c \in { SubSeq(UpperCase, i, i) : i \in 1..Len(UpperCase) } |->
        LET i == CHOOSE k \in 1..Len(UpperCase) : SubSeq(UpperCase, k, k) = c
        IN SubSeq(LowerCase, i, i)]

LowerChar(c) ==
    IF c \in DOMAIN LowerOf THEN LowerOf[c] ELSE c

RECURSIVE Lower(_)
Lower(str) ==
    IF Len(str) = 0 THEN ""
    ELSE LowerChar(SubSeq(str, 1, 1)) \o Lower(SubSeq(str, 2, Len(str)))

\* term in str
Contains(str, term) ==
    \E i \in 0..Len(str) :
        i + Len(term) <= Len(str) /\ SubSeq(str, i + 1, i + Len(term)) = term

\* product.get(field) and search_term in product[field].lower()
FieldContains(product, field, search_term) ==
    product[field] # "" /\ Contains(Lower(product[field]), search_term)

\* a match that looks at all four fields whatever the criteria
SearchMatchAnyField(product, criteria, search_term) ==
    \/ Contains(Lower(product.productId), search_term)
    \/ FieldContains(product, "batchName", search_term)
    \/ FieldContains(product, "manufacturerName", search_term)
    \/ FieldContains(product, "productType", search_term)

\* search_products, lines 425-441: does the product match
SearchMatch(product, criteria, search_term) ==
    IF criteria = "productId"
    THEN Contains(Lower(product.productId), search_term)
    ELSE IF criteria = "batchName"
    THEN FieldContains(product, "batchName", search_term)
    ELSE IF criteria = "manufacturer"
    THEN FieldContains(product, "manufacturerName", search_term)
    ELSE IF criteria = "productType"
    THEN FieldContains(product, "productType", search_term)
    ELSE \/ Contains(Lower(product.productId), search_term)
         \/ FieldContains(product, "batchName", search_term)
         \/ FieldContains(product, "manufacturerName", search_term)
         \/ FieldContains(product, "productType", search_term)

SearchQueries == {"TECH", "LOT-001", "unknown", "zzz"}

SearchCriteria == {"productId", "batchName", "manufacturer", "productType",
                   "all", "batchId", "manufacturerName"}

\* search_products(query, criteria), from entry to return
SearchProducts(query, criteria) ==
    LET search_term == Lower(query)
        results == SelectSeq(products_data.products,
                             LAMBDA product : SearchMatch(product, criteria, search_term))
    IN /\ last' = Returned("search_products",
                           [query |-> query, criteria |-> criteria], results)
       /\ UNCHANGED <<now, uploads, batches_data, products_data, scans_data,
                      users_data, anchored, registered, pc, loc>>

NextStore ==
    \/ Tick
    \/ \E batch_id \in ProductIds \cup {"LOT-404"}, scan_data \in DirectScanData :
            RecordScan(batch_id, scan_data)

SpecStore == InitDashboard /\ [][NextStore]_vars

\* ---- search over the products registered through the upload route ----
NextSearch ==
    \/ \E req \in UploadRequests : UploadFile(req)
    \/ \E query \in SearchQueries, criteria \in SearchCriteria :
            SearchProducts(query, criteria)

SpecSearch == Init /\ [][NextSearch]_vars

(***************************************************************************)
(* AuthService under concurrent requests: each of associate_blockchain_hash,*)
(* register_user and login_user loads users.json, changes its copy and      *)
(* writes the whole file back.  A thread's step is one file access together *)
(* with the local computation that follows it.  The append of login_user to *)
(* sessions.json touches no state of this model.                           *)
(***************************************************************************)
AuthFrame == <<now, uploads, batches_data, products_data, scans_data,
               anchored, registered, last>>

HashData(batch_id, file_data) ==
    [batchId |-> batch_id, fileHash |-> Sha256Hex(file_data),
     txHash |-> StoreProductHash(batch_id, Sha256Hex(file_data))]

AssociateInputs == {HashData("LOT-001", "hello"), HashData("LOT-002", "hello!")}

RegisterEmails == {"ann@example.com", "bob@example.com", "supplier@logistics.com"}

LoginEmails == {"manufacturer@techcorp.com", "nobody@example.com"}

\* index of the first user with that email, 0 when there is none
EmailIndex(ud, email) ==
    IF \E i \in 1..Len(ud.users) : ud.users[i].email = email
    THEN CHOOSE i \in 1..Len(ud.users) :
            /\ ud.users[i].email = email
            /\ \A j \in 1..(i - 1) : ud.users[j].email # email
    ELSE 0

\* a thread enters associate_blockchain_hash(user_id, hash_data)
AssociateCall(t, user_id, hash_data) ==
    /\ pc[t] = "idle"
    /\ pc' = [pc EXCEPT ![t] = "A213"]
    /\ loc' = [loc EXCEPT ![t] = [NoLocals EXCEPT !.user_id = user_id,
                                                  !.hash_data = hash_data]]
    /\ UNCHANGED <<users_data, AuthFrame>>

\* line 213: the read of users.json; lines 215-222 on the copy
AssociateLoadUsers(t) ==
    /\ pc[t] = "A213"
    /\ IF UserIndex(users_data, loc[t].user_id) = 0
       THEN /\ pc' = [pc EXCEPT ![t] = "done"]
            /\ loc' = [loc EXCEPT ![t].returned = "False"]
       ELSE /\ pc' = [pc EXCEPT ![t] = "A223"]
            /\ loc' = [loc EXCEPT ![t].users_data =
                        AssociateBlockchainHash(users_data, loc[t].user_id,
                                                loc[t].hash_data, now)]
    /\ UNCHANGED <<users_data, AuthFrame>>

\* line 223: the write of users.json; return True
AssociateSaveUsers(t) ==
    /\ pc[t] = "A223"
    /\ users_data' = loc[t].users_data
    /\ pc' = [pc EXCEPT ![t] = "associated"]
    /\ loc' = [loc EXCEPT ![t].returned = "True"]
    /\ UNCHANGED AuthFrame

\* a thread enters register_user(email, ...)
RegisterCall(t, email) ==
    /\ pc[t] = "idle"
    /\ pc' = [pc EXCEPT ![t] = "R105"]
    /\ loc' = [loc EXCEPT ![t] = [NoLocals EXCEPT !.email = email]]
    /\ UNCHANGED <<users_data, AuthFrame>>

\* line 105: the read of users.json; lines 108-136 on the copy
RegisterLoadUsers(t) ==
    /\ pc[t] = "R105"
    /\ IF EmailIndex(users_data, loc[t].email) # 0
       THEN /\ pc' = [pc EXCEPT ![t] = "done"]
            /\ loc' = [loc EXCEPT ![t].returned = "User already exists"]
       ELSE LET new_user == NewUser(users_data.lastUserId + 1, loc[t].email,
                                    "New User", "user")
            IN /\ pc' = [pc EXCEPT ![t] = "R137"]
               /\ loc' = [loc EXCEPT
                            ![t].users_data =
                                [users |-> Append(users_data.users, new_user),
                                 lastUserId |-> users_data.lastUserId + 1],
                            ![t].new_user_id = new_user.id]
    /\ UNCHANGED <<users_data, AuthFrame>>

\* line 137: the write of users.json; return success with the new user
RegisterSaveUsers(t) ==
    /\ pc[t] = "R137"
    /\ users_data' = loc[t].users_data
    /\ pc' = [pc EXCEPT ![t] = "registered"]
    /\ loc' = [loc EXCEPT ![t].returned = "success"]
    /\ UNCHANGED AuthFrame

\* a thread enters login_user(email, password)
LoginCall(t, email, password_ok) ==
    /\ pc[t] = "idle"
    /\ pc' = [pc EXCEPT ![t] = "G147"]
    /\ loc' = [loc EXCEPT ![t] = [NoLocals EXCEPT !.email = email,
                                                  !.password_ok = password_ok]]
    /\ UNCHANGED <<users_data, AuthFrame>>

\* line 147: the read of users.json; lines 150-164 on the copy
LoginLoadUsers(t) ==
    LET i == EmailIndex(users_data, loc[t].email) IN
    /\ pc[t] = "G147"
    /\ IF i = 0
       THEN /\ pc' = [pc EXCEPT ![t] = "done"]
            /\ loc' = [loc EXCEPT ![t].returned = "User not found"]
       ELSE IF ~loc[t].password_ok
       THEN /\ pc' = [pc EXCEPT ![t] = "done"]
            /\ loc' = [loc EXCEPT ![t].returned = "Invalid password"]
       ELSE /\ pc' = [pc EXCEPT ![t] = "G165"]
            /\ loc' = [loc EXCEPT ![t].users_data =
                        [users_data EXCEPT !.users[i].lastLogin = <<now>>]]
    /\ UNCHANGED <<users_data, AuthFrame>>

\* line 165: the write of users.json; return success
LoginSaveUsers(t) ==
    /\ pc[t] = "G165"
    /\ users_data' = loc[t].users_data
    /\ pc' = [pc EXCEPT ![t] = "logged_in"]
    /\ loc' = [loc EXCEPT ![t].returned = "success"]
    /\ UNCHANGED AuthFrame

NextAuth ==
    \E t \in Threads :
        \/ \E user_id \in {1, 9}, hash_data \in AssociateInputs :
                AssociateCall(t, user_id, hash_data)
        \/ AssociateLoadUsers(t)
        \/ AssociateSaveUsers(t)
        \/ \E email \in RegisterEmails : RegisterCall(t, email)
        \/ RegisterLoadUsers(t)
        \/ RegisterSaveUsers(t)
        \/ \E email \in LoginEmails, password_ok \in BOOLEAN :
                LoginCall(t, email, password_ok)
        \/ LoginLoadUsers(t)
        \/ LoginSaveUsers(t)

SpecAuth == Init /\ [][NextAuth]_vars

\* ---- GET /api/user/<int:user_id>/metadata ----
\* Python values of the two types the route compares
PyStr(str) == [type |-> "str", value |-> str]
PyInt(n) == [type |-> "int", value |-> n]

\* Python ==, != : values of different types are unequal
PyEq(a, b) == a.type = b.type /\ a.value = b.value

\* current_user_id != user_id, negated
SameUser(current_user_id, user_id) == PyEq(current_user_id, user_id)

\* get_user_by_id: the users whose id equals user_id, first one first
\* (the code returns the first, None when there is none)
GetUserById(ud, user_id) ==
    SelectSeq(ud.users, LAMBDA user : PyEq(PyInt(user.id), user_id))

\* user_scans[-10:]
ActivityLimit == 10

\* get_user_products
GetUserProducts(pd, user_id) ==
    SelectSeq(pd.products, LAMBDA p : p.userId = user_id)

\* get_user_metadata of DatabaseService
UserMetadata(user_id, pd, sd) ==
    LET user_products == GetUserProducts(pd, user_id)
        user_scans ==
            SelectSeq(sd.scans,
                      LAMBDA scan : \E i \in 1..Len(user_products) :
                                        user_products[i].productId = scan.batchId)
        n == Len(user_scans)
    IN [userId |-> user_id,
        totalUploads |-> Len(user_products),
        totalScans |-> n,
        products |-> user_products,
        recentActivity |->
            SubSeq(user_scans, IF n > ActivityLimit THEN n - ActivityLimit + 1 ELSE 1, n),
        uploadHistory |->
            [i \in 1..Len(user_products) |->
                [productId |-> user_products[i].productId,
                 batchName |-> user_products[i].batchName,
                 uploadedAt |-> user_products[i].createdAt,
                 fileHash |-> user_products[i].fileHash,
                 txHash |-> user_products[i].txHash]]]

\* sub: the subject of the token (login issues str(user id)), None without
\* a token; userId: the <int:user_id> of the path
MetadataRequest(sub, user_id) == [sub |-> sub, userId |-> user_id]

MetadataRequests ==
    {MetadataRequest(None, 1)}
    \cup {MetadataRequest(sub, user_id) : sub \in {"1", "2"}, user_id \in {1, 2}}

\* the route get_user_metadata
GetUserMetadata(req) ==
    LET current_user_id == PyStr(req.sub)
        user_id == PyInt(req.userId)
        current_user == GetUserById(users_data, current_user_id)
        metadata == Response("metadata", req, 200,
                             [success |-> TRUE,
                              userMetadata |->
                                UserMetadata(req.userId, products_data, scans_data)])
    IN /\ last' =
            IF req.sub = None
            THEN Response("metadata", req, 401,
                          Failure("Authorization header is expected"))
            ELSE IF SameUser(current_user_id, user_id)
            THEN metadata
            ELSE IF Len(current_user) = 0
            THEN Response("metadata", req, 500,
                          Failure("'NoneType' object has no attribute 'get'"))
            ELSE IF current_user[1].role # "admin"
            THEN Response("metadata", req, 403,
                          Failure("Access denied. You can only view your own metadata."))
            ELSE metadata
       /\ UNCHANGED <<now, uploads, batches_data, products_data, scans_data,
                      users_data, anchored, registered, pc, loc>>

NextMetadata ==
    \/ Tick
    \/ \E req \in DashboardScanRequests : ScanProduct(req)
    \/ \E req \in MetadataRequests : GetUserMetadata(req)

SpecMetadata == InitDashboard /\ [][NextMetadata]_vars


(***************************************************************************)
(* Properties.                                                             *)
(***************************************************************************)
IsPrefix(s, t) == Len(s) <= Len(t) /\ SubSeq(t, 1, Len(s)) = s

\* the scan list get_batch(batch_id) shows, empty while there is no such batch
ScansOf(bd, batch_id) ==
    IF HasBatch(bd, batch_id) THEN GetBatch(bd, batch_id).scans ELSE <<>>

AnchoredIds == {e.batchId : e \in anchored}

\* a request that passes upload_file's validation and meets no fault
CleanUpload(req) ==
    /\ req.sub \in UploaderSubjects
    /\ req.file = "ok"
    /\ req.productId # ""
    /\ req.fault = "none"

\* C1: after a successful registration of artifact A under batchId b, a
\* verification of b against a blob URI answers isVerified = TRUE when the
\* fetched blob is A, and isVerified = FALSE with storedHash # currentHash
\* when the fetched blob differs from A.
RegisterVerifyRoundTrip ==
    (/\ last.op = "verify"
     /\ last.status = 200
     /\ last.req.greenfieldUrl # NoUrl)
    => \A A \in FileContents :
         <<last.req.productId, A>> \in registered =>
            IF DownloadFile(uploads, last.req.greenfieldUrl) = A
            THEN last.body.isVerified
            ELSE /\ ~last.body.isVerified
                 /\ last.body.storedHash # last.body.currentHash

\* C2: a registration whose batchId already has a batch row fails with
\* DuplicateBatchId and leaves batches.json and products.json as they were.
DuplicateRegistrationRejected ==
    [][\A req \in UploadRequests :
         (/\ UploadFile(req)
          /\ CleanUpload(req)
          /\ HasBatch(batches_data, req.productId))
         => /\ last'.status # 200
            /\ last'.body.error = "DuplicateBatchId"
            /\ batches_data' = batches_data
            /\ products_data' = products_data]_vars

\* C3: once N concurrent record_scan calls for existing batches have all
\* returned, every one has returned its scan record, and for each batch both
\* scan logs (the batch's nested list, and its entries in scans.json) hold as
\* many events as calls were made for it.
NoLostScans ==
    (\A t \in Threads : pc[t] = "done") =>
        /\ \A t \in Threads :
             loc[t].batch_id \in ProductIds => loc[t].returned = "scan_record"
        /\ \A b \in ProductIds :
             LET n == Cardinality({t \in Threads : loc[t].batch_id = b}) IN
             /\ Len(ScansOf(batches_data, b)) = n
             /\ Cardinality({i \in DOMAIN scans_data.scans :
                                scans_data.scans[i].batchId = b}) = n

\* a step that is answered with `response`, a response of handler `op`
Answers(op, response) == last' = response /\ last' # last /\ response.op = op

\* C4: in a sequential execution no step removes or rewrites a stored scan
\* event (each batch's scan list, and scans.json, only ever gain a suffix),
\* and a successful scan of batch b appends exactly one event, the one the
\* response reports, at the end of b's scan list.
ScanLogAppendOnly ==
    [][/\ IsPrefix(scans_data.scans, scans_data'.scans)
       /\ \A b \in ProductIds :
            /\ IsPrefix(ScansOf(batches_data, b), ScansOf(batches_data', b))
            /\ (/\ Answers("scan", last')
                /\ last'.status = 200
                /\ last'.req.qr = b) =>
                    LET before == ScansOf(batches_data, b)
                        after == ScansOf(batches_data', b)
                    IN /\ Len(after) = Len(before) + 1
                       /\ SubSeq(after, 1, Len(before)) = before
                       /\ after[Len(after)].id = last'.body.scanRecord.scanId
                       /\ after[Len(after)].batchId = b
                       /\ after[Len(after)].supplierName = last'.req.supplierName]_vars

\* C4 witness: a scan has just been recorded on a batch that already held one.
SecondScanRecorded ==
    /\ last.op = "scan"
    /\ last.status = 200
    /\ Len(ScansOf(batches_data, last.req.qr)) >= 2

\* C5: once the ledger has acknowledged anchor(b, h), lookup(b) returns h.
AnchorLookupRoundTrip ==
    \A e \in anchored : GetProductHash(e.batchId) = e.fileHash

\* C6: lookup of a batchId that was never anchored returns NotFound, whatever
\* has been anchored for other batchIds.
LookupOfUnanchoredIsNotFound ==
    \A b \in ProductIds \cup {"LOT-404"} :
        b \notin AnchoredIds => GetProductHash(b) = None

\* C7: the ledger acknowledges at most one entry per batchId: no two
\* acknowledged anchors of one batchId differ.
AnchorAtMostOncePerBatch ==
    \A e1 \in anchored : \A e2 \in anchored :
        e1.batchId = e2.batchId => e1 = e2

\* C8: a verification of a batchId that has no ledger entry is answered with
\* a result (no exception) whose isVerified is FALSE and which says that the
\* product was not found on the ledger.
VerifyUnanchoredNotFound ==
    (/\ last.op = "verify"
     /\ last.req.authed
     /\ last.req.productId # ""
     /\ last.req.productId \notin AnchoredIds)
    => /\ last.status = 200
       /\ ~last.body.isVerified
       /\ "error" \in DOMAIN last.body
       /\ last.body.error = "Product not found on blockchain"

\* C9: a verdict given without a blob URI has currentHash = storedHash and
\* isVerified = TRUE, and carries verifiedAgainstSource = FALSE.
WeakVerificationLabelled ==
    (/\ last.op = "verify"
     /\ last.status = 200
     /\ last.req.greenfieldUrl = NoUrl)
    => /\ last.body.currentHash = last.body.storedHash
       /\ last.body.isVerified
       /\ "verifiedAgainstSource" \in DOMAIN last.body
       /\ last.body.verifiedAgainstSource = FALSE

\* every batch row and product row was written after its blob had been
\* stored and its hash anchored
RowsFollowBlobAndAnchor(bd, pd, files, ledger) ==
    /\ \A i \in DOMAIN bd.batches :
         /\ bd.batches[i].greenfieldUrl.filename \in DOMAIN files
         /\ \E e \in ledger : /\ e.batchId = bd.batches[i].batchId
                              /\ e.fileHash = bd.batches[i].fileHash
    /\ \A i \in DOMAIN pd.products :
         /\ pd.products[i].greenfieldUrl.filename \in DOMAIN files
         /\ \E e \in ledger : /\ e.batchId = pd.products[i].productId
                              /\ e.fileHash = pd.products[i].fileHash

BlobOrAnchorFailed(response) ==
    /\ response.op = "upload"
    /\ response.status = 500
    /\ response.body.error \in {"Failed to upload file",
                                "Failed to store hash on blockchain"}

\* every batch row stems from a registration that was answered with success
RowsAllRegistered ==
    \A i \in DOMAIN batches_data.batches :
        \E A \in FileContents :
            /\ <<batches_data.batches[i].batchId, A>> \in registered
            /\ batches_data.batches[i].fileHash = Sha256Hex(A)

\* C10 as stated: a batch row is persisted only after blob storage and
\* anchoring succeeded, and after a registration whose blob storage or
\* anchoring failed no batch row and no product row of that batchId exists
\* (looked at where all rows present stem from successful registrations).
FailedRegistrationLeavesNoRow ==
    /\ RowsFollowBlobAndAnchor(batches_data, products_data, uploads, anchored)
    /\ (BlobOrAnchorFailed(last) /\ RowsAllRegistered) =>
         /\ ~HasBatch(batches_data, last.req.productId)
         /\ \A i \in DOMAIN products_data.products :
              products_data.products[i].productId # last.req.productId

\* C10 as amended: a batch row is persisted only after blob storage and
\* anchoring succeeded, and a registration whose blob storage or anchoring
\* fails adds no batch row and no product row: batches.json and
\* products.json are left as they were.
FailedRegistrationAddsNoRow ==
    [][/\ RowsFollowBlobAndAnchor(batches_data', products_data', uploads', anchored')
       /\ (Answers("upload", last') /\ BlobOrAnchorFailed(last')) =>
                /\ batches_data' = batches_data
                /\ products_data' = products_data]_vars

\* C10 witness: the blob was stored, anchoring then failed, and the batchId
\* has no row.
AnchorFailedAfterBlobStored ==
    /\ last.op = "upload"
    /\ last.status = 500
    /\ last.body.error = "Failed to store hash on blockchain"
    /\ ObjectName(last.req.productId, now, "pdf") \in DOMAIN uploads
    /\ ~HasBatch(batches_data, last.req.productId)

\* <<batchId, fileHash, txHash>> of the batch rows owned by user_id, in the
\* order store_batch created them
RECURSIVE CreationsOf(_, _)
CreationsOf(rows, user_id) ==
    IF rows = <<>> THEN <<>>
    ELSE (IF Head(rows).userId = user_id
          THEN << <<Head(rows).batchId, Head(rows).fileHash, Head(rows).txHash>> >>
          ELSE <<>>) \o CreationsOf(Tail(rows), user_id)

\* <<batchId, fileHash, txHash>> of a user's HashAssociations, in order
AssociationsOf(user) ==
    [k \in DOMAIN user.blockchainHashes |->
        <<user.blockchainHashes[k].batchId, user.blockchainHashes[k].fileHash,
          user.blockchainHashes[k].txHash>>]

\* C11: after any sequence of registrations run one after the other, every
\* user's blockchainHashes list holds exactly one association per batch row
\* that store_batch created for that user (same batchId, fileHash and txHash,
\* in creation order) and no association without a batch row; a user's
\* totalBatches counts them.
HashAssociationsMatchBatches ==
    \A i \in DOMAIN users_data.users :
        /\ AssociationsOf(users_data.users[i]) =
                CreationsOf(batches_data.batches, users_data.users[i].id)
        /\ users_data.users[i].profileData.totalBatches =
                Len(users_data.users[i].blockchainHashes)

\* C11 witness: one batchId has been registered twice, so its owner holds
\* two associations for it.
SameBatchAssociatedTwice ==
    /\ Len(batches_data.batches) = 2
    /\ batches_data.batches[1].batchId = batches_data.batches[2].batchId
    /\ Len(users_data.users[1].blockchainHashes) = 2

\* the last request was a dashboard read that resolved its user
DashboardShown ==
    /\ last.op = "dashboard"
    /\ last.status = 200
    /\ last.body.success

\* the batchIds of the batch rows owned by user_id
BatchIdsOwnedBy(user_id) ==
    {batches_data.batches[i].batchId :
        i \in {j \in DOMAIN batches_data.batches :
                    batches_data.batches[j].userId = user_id}}

\* the recorded scan events a user's view is about: for a manufacturer the
\* scans of the batches it owns, for the other roles the scans recorded
\* under the user's name
ViewEvents(role, user_id, user_name) ==
    SelectSeq(scans_data.scans,
              LAMBDA e : IF role = "manufacturer"
                         THEN e.batchId \in BatchIdsOwnedBy(user_id)
                         ELSE e.supplierName = user_name)

EventsShown == ViewEvents(last.body.role, last.body.userId, last.body.userName)

\* C12: a manufacturer's dashboard reports as totalScans the number of scan
\* events recorded against the batches the manufacturer owns, each counted
\* once, and as totalSuppliers the number of distinct supplier names among
\* those events.
ManufacturerTotalsCountEachScanOnce ==
    (DashboardShown /\ last.body.role = "manufacturer") =>
        /\ last.body.totalScans = Len(EventsShown)
        /\ last.body.totalSuppliers = Cardinality(SupplierSet(EventsShown))

\* C13: in every role view recentScans holds at most 10 entries, no scan
\* event twice, exactly the view's events while there are at most 10 of
\* them, newest first, events of equal timestamp in insertion order.
RecentScansNewestFirstOnce ==
    DashboardShown =>
        LET recent == last.body.recentScans IN
        /\ Len(recent) <= RecentLimit
        /\ \A i \in DOMAIN recent : \A j \in DOMAIN recent :
                i # j => recent[i].id # recent[j].id
        /\ Len(EventsShown) <= RecentLimit =>
                {recent[i].id : i \in DOMAIN recent} =
                {EventsShown[i].id : i \in DOMAIN EventsShown}
        /\ \A i \in DOMAIN recent : \A j \in DOMAIN recent :
                i < j => /\ recent[i].timestamp >= recent[j].timestamp
                         /\ recent[i].timestamp = recent[j].timestamp =>
                                \E m \in DOMAIN EventsShown :
                                \E n \in DOMAIN EventsShown :
                                    /\ m < n
                                    /\ EventsShown[m].id = recent[i].id
                                    /\ EventsShown[n].id = recent[j].id

\* C14: a supplier's scannedBatches lists each batch the supplier's scans
\* refer to exactly once, with scanCount the number of the supplier's scans
\* of it and lastScanned the timestamp of the most recent of them.
SupplierBatchAnnotations ==
    (DashboardShown /\ last.body.role = "supplier") =>
        LET listed == last.body.scannedBatches
            mine == EventsShown
        IN
        /\ \A m \in DOMAIN mine :
                Cardinality({k \in DOMAIN listed :
                                listed[k].batchId = mine[m].batchId}) = 1
        /\ \A k \in DOMAIN listed :
                LET of_batch == {m \in DOMAIN mine :
                                    mine[m].batchId = listed[k].batchId}
                IN /\ of_batch # {}
                   /\ listed[k].scanCount = Cardinality(of_batch)
                   /\ \E m \in of_batch :
                        /\ listed[k].lastScanned = mine[m].timestamp
                        /\ \A n \in of_batch :
                                mine[n].timestamp <= mine[m].timestamp

\* C15: once a batch exists, the fileHash and greenfieldUrl that get_batch
\* returns for its batchId never change, whatever is registered (the same
\* batchId with another file included) or scanned later; a recorded scan
\* changes nothing of any batch row but its scans and lastActivity.
ContentImmutable ==
    [][/\ \A b \in ProductIds :
            HasBatch(batches_data, b) =>
                /\ HasBatch(batches_data', b)
                /\ GetBatch(batches_data', b).fileHash =
                        GetBatch(batches_data, b).fileHash
                /\ GetBatch(batches_data', b).greenfieldUrl =
                        GetBatch(batches_data, b).greenfieldUrl
       /\ (Answers("scan", last') /\ last'.status = 200) =>
            /\ Len(batches_data'.batches) = Len(batches_data.batches)
            /\ batches_data'.lastBatchId = batches_data.lastBatchId
            /\ \A i \in DOMAIN batches_data.batches :
                    [batches_data'.batches[i] EXCEPT
                        !.scans = batches_data.batches[i].scans,
                        !.lastActivity = batches_data.batches[i].lastActivity]
                    = batches_data.batches[i]]_vars

\* C15 witness: a batchId has been registered again with another file and
\* scanned, and get_batch still returns the first registration's hash.
ReRegisteredWithOtherFile ==
    /\ Len(batches_data.batches) = 2
    /\ batches_data.batches[1].batchId = batches_data.batches[2].batchId
    /\ batches_data.batches[1].fileHash # batches_data.batches[2].fileHash
    /\ Len(batches_data.batches[1].scans) >= 1
    /\ GetBatch(batches_data, batches_data.batches[2].batchId).fileHash =
            batches_data.batches[1].fileHash

\* C16: once store_batch(b) has returned, get_batch(b) finds a row for b in
\* every later state, whatever record_scan and store_batch calls of other
\* threads are under way.
StoredBatchesStay ==
    \A t \in Threads :
        pc[t] = "stored" => HasBatch(batches_data, loc[t].batch_id)

\* the scan events the store holds: the entries of scans.json and the
\* entries of every batch row's scans list
StoredScanEvents ==
    {scans_data.scans[i] : i \in DOMAIN scans_data.scans}
    \cup UNION {{batches_data.batches[i].scans[k] :
                    k \in DOMAIN batches_data.batches[i].scans} :
                i \in DOMAIN batches_data.batches}

\* int(scan['id'])
ScanIdNumber(id) ==
    CHOOSE n \in 0..(MaxScans + NumThreads + 1) : ToString(n) = id

\* C17: in every reachable state, those reached by interleaved record_scan
\* calls included, distinct stored scan events have distinct ids, and in
\* each scan log a later event has a numerically larger id than every
\* earlier one.
ScanIdsUniqueAndMonotonic ==
    /\ \A e1 \in StoredScanEvents : \A e2 \in StoredScanEvents :
            e1 # e2 => e1.id # e2.id
    /\ \A i \in DOMAIN scans_data.scans : \A j \in DOMAIN scans_data.scans :
            i < j => ScanIdNumber(scans_data.scans[i].id)
                        < ScanIdNumber(scans_data.scans[j].id)
    /\ \A b \in DOMAIN batches_data.batches :
        LET nested == batches_data.batches[b].scans IN
        \A i \in DOMAIN nested : \A j \in DOMAIN nested :
            i < j => ScanIdNumber(nested[i].id) < ScanIdNumber(nested[j].id)

\* the scans nested in the batch rows of a copy of batches.json
NestedEvents(bd) ==
    UNION {{bd.batches[i].scans[k] : k \in DOMAIN bd.batches[i].scans} :
            i \in DOMAIN bd.batches}

\* C18: the copies of batches.json and scans.json that one dashboard read
\* works on never show a scan event in one of the two scan logs that is
\* absent from the other.
DashboardSeesNoTornScan ==
    \A t \in Threads :
        pc[t] \in {"D151", "read"} =>
            NestedEvents(loc[t].batches_data) =
                {loc[t].scans_data.scans[i] : i \in DOMAIN loc[t].scans_data.scans}

\* C19: a scan request that passes validation and names a batchId with no
\* batch row is answered 404 "Batch not found" and leaves batches.json and
\* scans.json, the lastScanId counter included, as they were.
UnknownBatchScanFailsCleanly ==
    [][(/\ Answers("scan", last')
        /\ last'.req.sub # None
        /\ last'.req.qr \notin {"", "badjson"}
        /\ last'.req.supplierName # ""
        /\ GetBatchIndex(batches_data, last'.req.qr) = 0)
       => /\ last'.status = 404
          /\ last'.body.error = "Batch not found"
          /\ batches_data' = batches_data
          /\ scans_data' = scans_data]_vars

\* C19 witness: a scan of an unknown batchId has been refused while the
\* store held a batch and a recorded scan.
UnknownBatchScanRefused ==
    /\ last.op = "scan"
    /\ last.status = 404
    /\ last.req.qr = "LOT-404"
    /\ Len(batches_data.batches) >= 1
    /\ scans_data.lastScanId >= 1
    /\ Len(scans_data.scans) = scans_data.lastScanId

\* C20: a record_scan call with an empty actor name is rejected and stores
\* nothing, on the /api/scan route and when DatabaseService.record_scan is
\* called directly; no stored scan event has an empty supplierName.
EmptyActorRejected ==
    /\ \A e \in StoredScanEvents : e.supplierName # ""
    /\ \A t \in Threads :
            (pc[t] = "done" /\ loc[t].scan_data.supplierName = "") =>
                loc[t].returned # "scan_record"

\* C21: the timestamp of a stored scan event is the server clock at the
\* time record_scan ran; a 'timestamp' in the caller's scan data is never
\* stored, in neither scan log and not in the record returned.
ServerSideTimestamp ==
    [][Answers("record_scan", last') /\ last'.status = 1 =>
        LET stored == scans_data'.scans[Len(scans_data'.scans)]
            nested == ScansOf(batches_data', last'.req.batchId)
        IN /\ Len(scans_data'.scans) = Len(scans_data.scans) + 1
           /\ stored.timestamp = now
           /\ nested[Len(nested)].timestamp = now
           /\ last'.body.timestamp = now
           /\ "timestamp" \in DOMAIN last'.req.scanData =>
                stored.timestamp # last'.req.scanData.timestamp]_vars

\* C21 witness: a scan whose data carried a timestamp of the caller's has
\* been recorded after the clock had advanced.
CallerTimestampDiscarded ==
    /\ last.op = "record_scan"
    /\ last.status = 1
    /\ "timestamp" \in DOMAIN last.req.scanData
    /\ now > 0
    /\ last.body.timestamp = now

\* the scans of scans.json whose batchId has neither a batch row nor a
\* product row
IsOrphan(e) ==
    /\ ~HasBatch(batches_data, e.batchId)
    /\ \A i \in DOMAIN products_data.products :
            products_data.products[i].productId # e.batchId

Orphans == {scans_data.scans[i] :
                i \in {j \in DOMAIN scans_data.scans : IsOrphan(scans_data.scans[j])}}

\* the batch entries of a supplier view or a general user view
BatchEntries(body) ==
    IF body.role = "supplier" THEN body.scannedBatches
    ELSE IF body.role = "user" THEN body.viewedBatches
    ELSE <<>>

ManufacturerNamesShown(body) ==
    IF body.role = "manufacturer" THEN {} ELSE body.manufacturerList

\* how often the scan with that id is listed in a view's allScans
TimesListed(body, id) ==
    Cardinality({k \in DOMAIN body.allScans : body.allScans[k].id = id})

\* an orphaned scan adds no batch entry and no manufacturer to a view
OrphansAddNoBatch(body) ==
    /\ \A k \in DOMAIN BatchEntries(body) :
            \A e \in Orphans : BatchEntries(body)[k].batchId \notin {e.batchId, None}
    /\ ManufacturerNamesShown(body) \subseteq
            {batches_data.batches[i].manufacturerName :
                i \in DOMAIN batches_data.batches}

\* C22 as stated: with an orphaned scan in scans.json every role view is
\* still returned in full, lists the orphaned scan without enrichment, and
\* takes no batch entry and no manufacturer from it.
OrphanedScansListedInEveryView ==
    (last.op = "dashboard" /\ last.req.authed /\ last.req.userId \in {"1", "2", "3"})
    => /\ DashboardShown
       /\ \A e \in Orphans :
            /\ TimesListed(last.body, e.id) >= 1
            /\ \A k \in DOMAIN last.body.allScans :
                    last.body.allScans[k].id = e.id =>
                        last.body.allScans[k].productName = None
       /\ OrphansAddNoBatch(last.body)

\* C22 as amended: with an orphaned scan in scans.json every role view is
\* still returned in full; the supplier view and the general user view of
\* the user under whose name the scan was recorded list it once, without
\* enrichment; every other view, a manufacturer's view included, leaves it
\* out; no view takes a batch entry or a manufacturer from it.
OrphanedScansTolerated ==
    (last.op = "dashboard" /\ last.req.authed /\ last.req.userId \in {"1", "2", "3"})
    => /\ DashboardShown
       /\ \A e \in Orphans :
            /\ TimesListed(last.body, e.id) =
                    IF /\ last.body.role # "manufacturer"
                       /\ e.supplierName = last.body.userName
                    THEN 1 ELSE 0
            /\ \A k \in DOMAIN last.body.allScans :
                    last.body.allScans[k].id = e.id =>
                        last.body.allScans[k].productName = None
       /\ last.body.totalScans = Len(last.body.allScans)
       /\ OrphansAddNoBatch(last.body)

\* C22 witness: a supplier's view lists an orphaned scan next to scans of a
\* batch that resolves.
OrphanListedBySupplierView ==
    /\ DashboardShown
    /\ last.body.role = "supplier"
    /\ \E e \in Orphans : TimesListed(last.body, e.id) = 1
    /\ Len(last.body.scannedBatches) = 1

\* the Blob Store has no bytes for the URI: it is no gnfd:// URI or names an
\* object that was never uploaded
BlobUnavailable(url) ==
    url.scheme # "gnfd" \/ url.filename \notin DOMAIN uploads

\* C23: a verification whose blob URI the Blob Store cannot serve reports a
\* failure of the fetch step; it gives no verified/tampered verdict and no
\* currentHash computed over placeholder bytes.
BlobFailureReported ==
    (/\ last.op = "verify"
     /\ last.req.authed
     /\ last.req.productId # ""
     /\ last.req.greenfieldUrl # NoUrl
     /\ BlobUnavailable(last.req.greenfieldUrl))
    => /\ ~last.body.success
       /\ "isVerified" \notin DOMAIN last.body
       /\ "currentHash" \notin DOMAIN last.body

\* the stored records whose named field contains the query, both in lower
\* case: one field when `field` is one of `names` (each token paired with
\* the record key it names), any of the four fields otherwise
SearchExpected(query, field, names) ==
    LET hit(product, key) == Contains(Lower(product[key]), Lower(query))
        keys == {"productId", "batchName", "manufacturerName", "productType"}
    IN SelectSeq(products_data.products,
                 LAMBDA product :
                    IF field \in DOMAIN names
                    THEN hit(product, names[field])
                    ELSE \E key \in keys : hit(product, key))

\* C24: a search by one field (criteria productId for the batch id,
\* batchName, manufacturer for manufacturerName, productType) returns exactly
\* the stored records whose lower-cased field contains the lower-cased query;
\* a search by "all" (the code's default branch, which any other criteria
\* value also takes) returns exactly those with a match in at least one of
\* the four fields; results are in storage order and the store is unchanged.
SearchByCriteria ==
    [][Answers("search_products", last') =>
        /\ last'.body = SearchExpected(last'.req.query, last'.req.criteria,
                            [productId |-> "productId", batchName |-> "batchName",
                             manufacturer |-> "manufacturerName",
                             productType |-> "productType"])
        /\ products_data' = products_data
        /\ batches_data' = batches_data]_vars

\* C24 witness: a search by productId, asked in upper case, has returned
\* one of the two stored records.
SearchFoundOneByProductId ==
    /\ last.op = "search_products"
    /\ last.req.criteria = "productId"
    /\ last.req.query = "LOT-001"
    /\ Len(last.body) = 1
    /\ Len(products_data.products) = 2

\* C25: a metadata request for user U with a token issued for registered
\* user R is answered with U's metadata when R = U or R is an admin, and
\* with 403 and no metadata otherwise.
MetadataAccessControl ==
    (last.op = "metadata" /\ last.req.sub # None) =>
        LET R == SubjectId(last.req.sub)
            U == last.req.userId
            requester == users_data.users[UserIndex(users_data, R)]
        IN IF R = U \/ requester.role = "admin"
           THEN /\ last.status = 200
                /\ last.body.userMetadata =
                        UserMetadata(U, products_data, scans_data)
           ELSE /\ last.status = 403
                /\ "userMetadata" \notin DOMAIN last.body

\* C26: whenever POST /api/upload answers success with fileHash h for batch
\* b, get_batch(b) right afterwards returns a row whose fileHash is h and
\* whose greenfieldUrl and txHash are those of the response, whatever was
\* registered before (earlier registrations of b included).
SuccessImpliesPersisted ==
    (last.op = "upload" /\ last.status = 200) =>
        /\ HasBatch(batches_data, last.body.batchId)
        /\ GetBatch(batches_data, last.body.batchId).fileHash = last.body.fileHash
        /\ GetBatch(batches_data, last.body.batchId).greenfieldUrl =
                last.body.greenfieldUrl
        /\ GetBatch(batches_data, last.body.batchId).txHash = last.body.txHash

\* C27: whenever POST /api/upload answers with a failure, the batch rows,
\* the product rows and the users' hash associations are the same as before
\* the call.
FailureImpliesUnchanged ==
    [][(Answers("upload", last') /\ last'.status # 200) =>
        /\ batches_data' = batches_data
        /\ products_data' = products_data
        /\ users_data' = users_data]_vars

\* C28: when the store_batch and record_scan calls of the upload and scan
\* routes run one after another (re-registrations of a batchId included), the
\* nested scans list of get_batch(b) equals, in order, the entries of
\* scans.json whose batchId is b, for every b, and lastScanId is the number
\* of entries of scans.json.
ScanLogsAgree ==
    /\ \A b \in ProductIds \cup {"LOT-404"} :
            ScansOf(batches_data, b) =
                SelectSeq(scans_data.scans, LAMBDA scan : scan.batchId = b)
    /\ scans_data.lastScanId = Len(scans_data.scans)

\* C28 witness: scans.json holds scans of two different batches, each nested
\* in its own batch row.
ScansOfTwoBatchesLogged ==
    /\ Len(scans_data.scans) = 2
    /\ scans_data.scans[1].batchId # scans_data.scans[2].batchId
    /\ Len(ScansOf(batches_data, scans_data.scans[1].batchId)) = 1

\* every AuthService call that was made has returned
AuthCallsCompleted ==
    \A t \in Threads :
        pc[t] \in {"idle", "done", "associated", "registered", "logged_in"}

\* C29: once all calls have completed, every association for which
\* associate_blockchain_hash returned True is in the owner's
\* blockchainHashes, whatever login_user, register_user and other
\* associate_blockchain_hash calls ran in between, and the owner's
\* totalBatches is the length of blockchainHashes.
HashAssociationsSurvive ==
    AuthCallsCompleted =>
        \A i \in 1..Len(users_data.users) :
            LET user == users_data.users[i]
                returned_true ==
                    {t \in Threads : pc[t] = "associated" /\ loc[t].user_id = user.id}
            IN /\ \A t \in returned_true :
                    \E k \in 1..Len(user.blockchainHashes) :
                        user.blockchainHashes[k].batchId = loc[t].hash_data.batchId
               /\ Len(user.blockchainHashes) >= Cardinality(returned_true)
               /\ user.profileData.totalBatches = Len(user.blockchainHashes)

\* C30: for every register_user call that returned success with id i for
\* email e, get_user_by_id(i) returns the user with email e, in every
\* reachable state; no two successful registrations have the same id.
UserIdsIdentifyAccounts ==
    \A t \in Threads :
        pc[t] = "registered" =>
            LET found == GetUserById(users_data, PyInt(loc[t].new_user_id))
            IN /\ Len(found) > 0
               /\ found[1].email = loc[t].email
               /\ \A u \in Threads \ {t} :
                    pc[u] = "registered" =>
                        loc[u].new_user_id # loc[t].new_user_id

====
